---- MODULE Spec2Model ----
(***************************************************************************)
(* Model of the crud-seven-app scaffold: the Express backend               *)
(* (app/src/index.ts) and the React component that fetches its welcome     *)
(* message (ui/src/App.tsx).                                               *)
(*                                                                         *)
(* Spec    the backend: concurrent connections dispatched through the      *)
(*         middleware stack  cors() -> express.json() -> GET /api/welcome  *)
(* SpecUI  one mounted App component and the promise chain of its effect   *)
(* SpecNet   ports of backend and dev server, the /api proxy, the fetch URL *)
(* SpecDev   .scripts/dev-both.sh: background jobs, trap and signals        *)
(* SpecKill  .scripts/kill-ports.sh: fuser on ports 5000 and 5001           *)
(***************************************************************************)
EXTENDS Integers, Sequences, FiniteSets, TLC

VARIABLES
    app,          \* backend: the middleware/route stack built by lines 4-12
    conns,        \* backend: connection id -> request being handled and its response
    mounted,      \* ui: the App component has been mounted
    message,      \* ui: the state held by useState
    rendered,     \* ui: the text of the status <span> after the last render
    needsRender,  \* ui: a state update has scheduled a re-render
    effectQueued, \* ui: the effect of the mount commit has not run yet
    pc,           \* ui: position of the promise chain of the effect
    response,     \* ui: the Response the fetch promise resolved with
    data,         \* ui: the value res.json() resolved with
    reason,       \* ui: why the chain was rejected ("" while it was not)
    fetchCount,   \* ui: calls of fetch made by this component instance
    forced,       \* ui: re-renders not caused by the component's own state
    ports,        \* net: TCP port -> who listens on it
    backendSt,    \* net: the backend process: off, listening or failed
    viteSt,       \* net: the dev server process: off or listening
    vitePort,     \* net: the port the dev server listens on (0 while off)
    viteSkipped,  \* net: ports the dev server found in use when it started
    lastReq,      \* net: how the last browser request was routed
    dpc,          \* dev-both.sh: position of the script
    jobs,         \* dev-both.sh: the two background jobs and their servers
    exitCause,    \* dev-both.sh: why the script is gone ("" while it runs)
    sigAt,        \* dev-both.sh: the signal that reached the script, and where
    kpc,          \* kill-ports.sh: position of the script
    krun,         \* kill-ports.sh: how it is run (fuser installed, run as root)
    listeners,    \* kill-ports.sh: port -> the process listening on it
    found,        \* kill-ports.sh: port -> what listened when the port was checked
    out           \* kill-ports.sh: port -> the message printed for it

backVars == <<app, conns>>
uiVars == <<mounted, message, rendered, needsRender, effectQueued, pc,
            response, data, reason, fetchCount, forced>>
netVars == <<ports, backendSt, viteSt, vitePort, viteSkipped, lastReq>>
devVars == <<dpc, jobs, exitCause, sigAt>>
killVars == <<kpc, krun, listeners, found, out>>
scriptVars == <<devVars, killVars>>
envVars == <<netVars, scriptVars>>
vars == <<backVars, uiVars, envVars>>

(***************************************************************************)
(* Bounds                                                                  *)
(***************************************************************************)
MaxConns == 2      \* connections the backend handles concurrently
MaxForced == 2     \* re-renders forced from outside the component
MaxBusy == 2       \* ports above the dev server's that other processes may hold

ConnIds == 1..MaxConns

(***************************************************************************)
(* Requests                                                                *)
(***************************************************************************)
Methods == {"GET", "POST", "OPTIONS"}

\* Request targets: the text of the path, its segments, and whether one
\* trailing "/" follows the last segment.
WelcomePath == [text |-> "/api/welcome", segs |-> <<"api", "welcome">>, slash |-> FALSE]
Paths ==
    { WelcomePath,
      [text |-> "/API/Welcome/", segs |-> <<"API", "Welcome">>, slash |-> TRUE],
      [text |-> "/api/other", segs |-> <<"api", "other">>, slash |-> FALSE] }

\* What the request carries as a body:
\*   none      no body (no Content-Length / Transfer-Encoding)
\*   json_ok   Content-Type: application/json, a well-formed JSON object
\*   json_bad  Content-Type: application/json, text that is not JSON
Bodies == {"none", "json_ok", "json_bad"}

\* The Origin header: the page served by the dev server, or a foreign site.
Origins == {"http://localhost:5001", "https://other.example"}

\* A preflight (OPTIONS) request carries no body.
Requests ==
    { r \in [method : Methods, path : Paths, body : Bodies, origin : Origins] :
        r.method = "OPTIONS" => r.body = "none" }

NoReq == [method |-> "", path |-> [text |-> "", segs |-> <<>>, slash |-> FALSE],
          body |-> "none", origin |-> ""]

(***************************************************************************)
(* Responses                                                               *)
(***************************************************************************)
\* A fresh ServerResponse: Node's default statusCode is 200, nothing written.
NewRes ==
    [statusCode |-> 200, allowOrigin |-> "", allowMethods |-> "",
     contentType |-> "", body |-> "", ended |-> FALSE]

\* JSON.stringify of the one-field object the handler passes to res.json.
JsonStringify(obj) == "{\"message\":\"" \o obj.message \o "\"}"

WelcomeMessage == "Hello from the Express Backend!"

(***************************************************************************)
(* Middleware and routes                                                   *)
(***************************************************************************)
PORT == 5000

\* cors({ origin: 'http://localhost:5001' }): an allow-list of one origin.
corsAllowList(req, res) ==
    LET allowed == IF req.origin = "http://localhost:5001" THEN req.origin ELSE ""
    IN  IF req.method = "OPTIONS"
        THEN [res EXCEPT !.allowOrigin = allowed,
                         !.allowMethods = "GET,HEAD,PUT,PATCH,POST,DELETE",
                         !.statusCode = 204,
                         !.ended = TRUE]
        ELSE [res EXCEPT !.allowOrigin = allowed]

\* cors() with no options: origin "*", preflightContinue false,
\* optionsSuccessStatus 204.  An OPTIONS request is answered here.
cors(req, res) ==
    IF req.method = "OPTIONS"
    THEN [res EXCEPT !.allowOrigin = "*",
                     !.allowMethods = "GET,HEAD,PUT,PATCH,POST,DELETE",
                     !.statusCode = 204,
                     !.ended = TRUE]
    ELSE [res EXCEPT !.allowOrigin = "*"]

\* express.json() reads the body only of a request that has one and declares
\* it as JSON; every other request is passed on without being read.
jsonShouldRead(req) == req.body \in {"json_ok", "json_bad"}

\* The outcome of JSON.parse (strict mode) on the body once it has been read.
jsonParses(req) == req.body = "json_ok"

\* The framework's final handler: no layer answered (404) or a layer failed
\* (the error's status).  Headers set earlier stay on the response.
finalhandler(req, res, status) ==
    [res EXCEPT !.statusCode = status,
                !.contentType = "text/html",
                !.body = IF status = 404
                         THEN "Cannot " \o req.method \o " " \o req.path.text
                         ELSE "SyntaxError",
                !.ended = TRUE]

\* The app's "strict routing" setting is left at its default.
strictRouting == FALSE

\* Lower-casing of a path segment (routing is case-insensitive by default).
Lower(s) ==
    CASE s = "API" -> "api"
      [] s = "Welcome" -> "welcome"
      [] OTHER -> s

LowerAll(segs) == [i \in 1..Len(segs) |-> Lower(segs[i])]

\* A GET route also answers HEAD requests.
handlesMethod(layer, method) ==
    \/ method = layer.method
    \/ method = "HEAD" /\ layer.method = "GET"

\* A layer mounted like app.use: matches every path below its first segment.
routeMatchesPrefix(layer, req) ==
    /\ handlesMethod(layer, req.method)
    /\ Len(req.path.segs) >= 1
    /\ Lower(req.path.segs[1]) = Lower(layer.path[1])

\* Layer.match for a route: default options are case-insensitive, not
\* strict (one trailing "/" is allowed), and anchored at the end.
routeMatches(layer, req) ==
    /\ handlesMethod(layer, req.method)
    /\ LowerAll(req.path.segs) = LowerAll(layer.path)
    /\ req.path.slash => ~strictRouting

\* A handler that answers 201 Created.
welcomeHandlerCreated(req, res) ==
    [res EXCEPT !.statusCode = 201,
                !.contentType = "application/json",
                !.body = JsonStringify([message |-> WelcomeMessage]),
                !.ended = TRUE]

\* A handler that remembers, in a module-level flag, that it has greeted:
\* while another connection holds an answer it greets differently.
welcomeHandlerGreetsOnce(req, res) ==
    [res EXCEPT !.contentType = "application/json",
                !.body = IF \E d \in ConnIds : conns[d].st = "done"
                         THEN JsonStringify([message |-> "Welcome back!"])
                         ELSE JsonStringify([message |-> WelcomeMessage]),
                !.ended = TRUE]

\* (req, res) => res.json({ message: "Hello from the Express Backend!" })
welcomeHandler(req, res) ==
    [res EXCEPT !.contentType = "application/json",
                !.body = JsonStringify([message |-> WelcomeMessage]),
                !.ended = TRUE]

\* The stack after app.use(cors()), app.use(express.json()), app.get(...).
appStack ==
    << [name |-> "cors", method |-> "", path |-> <<>>],
       [name |-> "json", method |-> "", path |-> <<>>],
       [name |-> "route", method |-> "GET", path |-> <<"api", "welcome">>] >>

\* Router dispatch from layer i on: runs layers synchronously until one ends
\* the response or express.json() starts to read the body.
RECURSIVE next(_, _, _)
next(req, res, i) ==
    IF res.ended THEN [st |-> "done", req |-> req, res |-> res, idx |-> i]
    ELSE IF i > Len(app)
    THEN [st |-> "done", req |-> req, res |-> finalhandler(req, res, 404), idx |-> i]
    ELSE CASE app[i].name = "cors" ->
                next(req, cors(req, res), i + 1)
           [] app[i].name = "json" ->
                IF jsonShouldRead(req)
                THEN [st |-> "reading", req |-> req, res |-> res, idx |-> i]
                ELSE next(req, res, i + 1)
           [] app[i].name = "route" ->
                IF routeMatches(app[i], req)
                THEN next(req, welcomeHandler(req, res), i + 1)
                ELSE next(req, res, i + 1)

\* The body has been read: parse it, then go on or fail with 400.
afterRead(c) ==
    IF jsonParses(c.req)
    THEN next(c.req, c.res, c.idx + 1)
    ELSE [st |-> "done", req |-> c.req,
          res |-> finalhandler(c.req, c.res, 400), idx |-> c.idx]

Idle == [st |-> "idle", req |-> NoReq, res |-> NewRes, idx |-> 0]

(***************************************************************************)
(* The App component                                                       *)
(***************************************************************************)
\* JavaScript values held by the component.
Str(s) == [t |-> "string", s |-> s]
Num(s) == [t |-> "number", s |-> s]
Undefined == [t |-> "undefined", s |-> ""]
Null == [t |-> "null", s |-> ""]
EmptyObject == [t |-> "object", s |-> ""]

\* Parsed JSON: an object with its message property, or a non-object value.
Obj(m) == [t |-> "object", message |-> m]
NonObj(t) == [t |-> t, message |-> Undefined]

Loading == "Loading..."
ErrorText == "Error connecting to backend"

\* useState<string>("")
useStateEmpty == Str("")

\* useState<string>("Loading...")
useStateInit == Str(Loading)

\* The request the effect makes: fetch('http://localhost:5000/api/welcome')
\* from a page served by the dev server.
FetchRequest ==
    [method |-> "GET", path |-> WelcomePath, body |-> "none",
     origin |-> "http://localhost:5001"]

\* Response body texts a server (or a mock) can answer with.
BodyTexts ==
    { JsonStringify([message |-> WelcomeMessage]),
      "{\"message\":\"X\"}",
      "{\"message\":\"Loading...\"}",
      "{\"message\":\"Error connecting to backend\"}",
      "{\"message\":42}",
      "{\"message\":null}",
      "{\"message\":{}}",
      "{}",
      "42",
      "null",
      "Cannot GET /api/welcome",
      "" }

\* res.text() wrapped into an object instead of res.json(): never rejects.
JsonParseLenient(text) == [ok |-> TRUE, value |-> Obj(Str(text))]

\* JSON.parse of a response body: the parsed value, or a SyntaxError.
JsonParse(text) ==
    CASE text = "{\"message\":\"Hello from the Express Backend!\"}" ->
            [ok |-> TRUE, value |-> Obj(Str("Hello from the Express Backend!"))]
      [] text = "{\"message\":\"X\"}" ->
            [ok |-> TRUE, value |-> Obj(Str("X"))]
      [] text = "{\"message\":\"Loading...\"}" ->
            [ok |-> TRUE, value |-> Obj(Str("Loading..."))]
      [] text = "{\"message\":\"Error connecting to backend\"}" ->
            [ok |-> TRUE, value |-> Obj(Str("Error connecting to backend"))]
      [] text = "{\"message\":42}" ->
            [ok |-> TRUE, value |-> Obj(Num("42"))]
      [] text = "{\"message\":null}" ->
            [ok |-> TRUE, value |-> Obj(Null)]
      [] text = "{\"message\":{}}" ->
            [ok |-> TRUE, value |-> Obj(EmptyObject)]
      [] text = "{}" ->
            [ok |-> TRUE, value |-> Obj(Undefined)]
      [] text = "42" ->
            [ok |-> TRUE, value |-> NonObj("number")]
      [] text = "null" ->
            [ok |-> TRUE, value |-> NonObj("null")]
      [] OTHER ->
            [ok |-> FALSE, value |-> NonObj("undefined")]

Statuses == {200, 404, 500}

\* What the network can hand to fetch: a response (status, body and the
\* Access-Control-Allow-Origin header the browser checks).
Responses == [status : Statuses, body : BodyTexts, allowOrigin : {"*", ""}]

NoResponse == [status |-> 0, body |-> "", allowOrigin |-> ""]
NoData == NonObj("undefined")

\* Why a fetch promise rejects.
RejectCauses == {"network failure", "backend unreachable"}
BlockedByCors == "blocked by CORS"

\* The browser lets the page read a cross-origin response only if the
\* response allows the page's origin.
corsAllows(req, r) == r.allowOrigin \in {"*", req.origin}

\* A callback that validates the field: anything but a string is refused.
messageInvalid(d) == d.t \in {"null", "undefined"} \/ d.message.t # "string"

\* data.message: reading a property of null or undefined throws a TypeError.
messageThrows(d) == d.t \in {"null", "undefined"}

\* data => setMessage(data.t): a property other than message.
thenValueOther(d) == Str(d.t)

\* err => setMessage(String(err)): the cause is shown.
catchValueCause(why) == Str(why)

\* data => setMessage(data.message): the value handed to setMessage.
thenValue(d) == d.message

\* () => setMessage("Error connecting to backend"): the rejection reason is
\* not a parameter of the callback.
catchValue(why) == Str(ErrorText)

\* The text React puts in the <span> for {message}.
\* undefined and null render nothing; an object as a child makes the render
\* throw, and without an error boundary React removes the tree: no text.
renderText(v) ==
    CASE v.t \in {"string", "number"} -> v.s
      [] OTHER -> ""

\* The dependency list of the effect, and whether a re-render with that list
\* runs the effect again.
effectDeps == <<>>
effectRerunsAlways(deps) == TRUE
effectReruns(deps) == \E i \in 1..Len(deps) : deps[i] # deps[i]

(***************************************************************************)
(* Ports, dev server and proxy                                             *)
(***************************************************************************)
\* server.port of the dev server configuration.
viteConfigPort == 5001

\* The target of the '/api' proxy entry: 'http://localhost:5000'.
proxyTargetDrifted == PORT + 1
proxyTargetPort == 5000

\* The port of the URL the component fetches: 'http://localhost:5000/...'.
fetchPort == 5000

\* Texts as sequences of characters, so that "starts with" is computed.
proxyKey == <<"/", "a", "p", "i">>
fetchPath == <<"/", "a", "p", "i", "/", "w", "e", "l", "c", "o", "m", "e">>

\* Paths a browser asks the dev server for.
DevPaths ==
    { fetchPath,
      <<"/", "a", "p", "i">>,
      <<"/", "a", "p", "i", "s">>,
      <<"/">>,
      <<"/", "s", "r", "c", "/", "a", "p", "i">>,
      <<"/", "a", "p">> }

\* url.startsWith(context)
startsWith(url, context) ==
    /\ Len(context) <= Len(url)
    /\ SubSeq(url, 1, Len(context)) = context

\* The ports of the model: the backend's up to MaxBusy above the dev server's.
NetPorts == PORT .. (viteConfigPort + MaxBusy)

\* strictPort is not set: the dev server takes the first free port from its
\* configured one upwards.
firstFreeFrom(p) ==
    CHOOSE q \in NetPorts :
        /\ q >= p /\ ports[q] = "free"
        /\ \A k \in p .. (q - 1) : ports[k] # "free"

NoRoute == [via |-> "none", path |-> <<>>, dest |-> 0]

InitNet ==
    /\ ports = [q \in NetPorts |-> "free"]
    /\ backendSt = "off"
    /\ viteSt = "off"
    /\ vitePort = 0
    /\ viteSkipped = {}
    /\ lastReq = NoRoute

(***************************************************************************)
(* dev-both.sh                                                             *)
(***************************************************************************)
JobNames == {"backend", "frontend"}
Signals == {"INT", "TERM"}

\* A signal reaches the script alone (kill <pid>) or the whole foreground
\* process group of the terminal (Ctrl+C).
Scopes == {"script", "group"}

\* A background job "cd ... && server &": $! is the process the shell forked
\* for the list.  Depending on the shell that process either becomes the
\* server (direct) or stays a wrapper waiting for the server, its child.
NoJob == [direct |-> FALSE, wrapper |-> "none", server |-> "none"]
newJob(direct) == [direct |-> direct, wrapper |-> "alive", server |-> "alive"]

\* kill $BACKEND_PID $FRONTEND_PID: SIGTERM to the process $! names.
killJob(j) ==
    IF j.wrapper # "alive" THEN j
    ELSE IF j.direct
    THEN [j EXCEPT !.wrapper = "dead", !.server = "dead"]
    ELSE [j EXCEPT !.wrapper = "dead"]

\* The trap of line 27 is installed once line 27 has run.
trapInstalled == dpc = "waiting"

NoSignal == [at |-> "", sig |-> "", scope |-> ""]

InitDev ==
    /\ dpc = "start"
    /\ jobs = [n \in JobNames |-> NoJob]
    /\ exitCause = ""
    /\ sigAt = NoSignal

(***************************************************************************)
(* kill-ports.sh                                                           *)
(***************************************************************************)
\* The ports the script names, in the order it checks them.
KillPorts == <<5000, 5001>>
KillPortSet == {KillPorts[i] : i \in 1..Len(KillPorts)}

\* Who listens on a port: nobody, a process of the user who runs the script,
\* or a process of another user.
Owners == {"none", "mine", "foreign"}

\* fuser -n tcp -k <port> 2>/dev/null: fuser finds a process through
\* /proc/<pid>/fd, which an ordinary user can read only for processes of
\* their own.  It finds nothing when it is not installed (status 127).
fuserFinds(run, owner) ==
    /\ run.installed
    /\ owner = "mine" \/ (owner = "foreign" /\ run.root)

\* The exit status of fuser: 0 if an access was found.
fuserStatus(run, owner) == IF fuserFinds(run, owner) THEN 0 ELSE 1

\* A process fuser has found is sent SIGKILL.
afterFuser(run, owner) == IF fuserFinds(run, owner) THEN "none" ELSE owner

\* Lines 11-15 and 20-24.
messageFor(status) == IF status = 0 THEN "Killed process" ELSE "No process found"

NotRun == [installed |-> FALSE, root |-> FALSE]

InitKill ==
    /\ kpc = 0
    /\ krun = NotRun
    /\ listeners = [q \in KillPortSet |-> "none"]
    /\ found = [q \in KillPortSet |-> "none"]
    /\ out = [q \in KillPortSet |-> ""]

(***************************************************************************)
(* Backend actions                                                         *)
(***************************************************************************)
InitBack ==
    /\ app = appStack
    /\ conns = [c \in ConnIds |-> Idle]

InitUI ==
    /\ mounted = FALSE
    /\ message = Undefined
    /\ rendered = ""
    /\ needsRender = FALSE
    /\ effectQueued = FALSE
    /\ pc = "none"
    /\ response = NoResponse
    /\ data = NoData
    /\ reason = ""
    /\ fetchCount = 0
    /\ forced = 0

Init == InitBack /\ InitUI /\ InitNet /\ InitDev /\ InitKill

\* A request arrives on an idle connection and is dispatched.
Receive(c, req) ==
    /\ conns[c].st = "idle"
    /\ conns' = [conns EXCEPT ![c] = next(req, NewRes, 1)]
    /\ UNCHANGED <<app, uiVars, envVars>>

\* The request body of connection c has arrived completely.
BodyEnd(c) ==
    /\ conns[c].st = "reading"
    /\ conns' = [conns EXCEPT ![c] = afterRead(conns[c])]
    /\ UNCHANGED <<app, uiVars, envVars>>

\* The response has been sent; the connection takes the next request.
Close(c) ==
    /\ conns[c].st = "done"
    /\ conns' = [conns EXCEPT ![c] = Idle]
    /\ UNCHANGED <<app, uiVars, envVars>>

ReceiveAny == \E c \in ConnIds, req \in Requests : Receive(c, req)
BodyEndAny == \E c \in ConnIds : BodyEnd(c)
CloseAny == \E c \in ConnIds : Close(c)

Next == ReceiveAny \/ BodyEndAny \/ CloseAny

Spec == Init /\ [][Next]_vars

\* The response a request gets when it is the only request ever made.
soloResponse(req) ==
    LET first == next(req, NewRes, 1)
    IN  IF first.st = "reading" THEN afterRead(first).res ELSE first.res

(***************************************************************************)
(* UI actions                                                              *)
(***************************************************************************)
\* setMessage(v): React re-renders only if the value differs.
setMessage(v) ==
    /\ message' = v
    /\ needsRender' = (needsRender \/ v # message)

\* First render and commit of <App />.
Mount ==
    /\ ~mounted
    /\ mounted' = TRUE
    /\ message' = useStateInit
    /\ rendered' = renderText(useStateInit)
    /\ effectQueued' = TRUE
    /\ UNCHANGED <<needsRender, pc, response, data, reason, fetchCount, forced,
                   backVars, envVars>>

\* The body of the effect: fetch(...) starts the promise chain.
startFetch ==
    /\ pc' = "fetch"
    /\ fetchCount' = fetchCount + 1
    /\ response' = NoResponse
    /\ data' = NoData
    /\ reason' = ""

\* The effect runs after the mount commit.
RunEffect ==
    /\ mounted /\ effectQueued
    /\ effectQueued' = FALSE
    /\ startFetch
    /\ UNCHANGED <<mounted, message, rendered, needsRender, forced, backVars, envVars>>

\* A re-render: after a state update, or forced from outside.
renderNow ==
    /\ rendered' = renderText(message)
    /\ needsRender' = FALSE
    /\ IF effectReruns(effectDeps)
       THEN startFetch
       ELSE UNCHANGED <<pc, response, data, reason, fetchCount>>
    /\ UNCHANGED <<mounted, message, effectQueued, backVars, envVars>>

Render ==
    /\ mounted /\ needsRender
    /\ renderNow
    /\ UNCHANGED forced

ForcedRender ==
    /\ mounted /\ forced < MaxForced
    /\ forced' = forced + 1
    /\ renderNow

\* .then(res => { if (!res.ok) throw new Error(...); return res.json() })
FetchResolveChecksOk(r) ==
    /\ pc = "fetch"
    /\ corsAllows(FetchRequest, r)
    /\ pc' = IF r.status = 200 THEN "json" ELSE "catch"
    /\ response' = r
    /\ reason' = IF r.status = 200 THEN reason ELSE "HTTP error"
    /\ UNCHANGED <<mounted, message, rendered, needsRender, effectQueued, data,
                   fetchCount, forced, backVars, envVars>>

\* fetch resolves with a response the browser lets the page read.
FetchResolve(r) ==
    /\ pc = "fetch"
    /\ corsAllows(FetchRequest, r)
    /\ pc' = "json"
    /\ response' = r
    /\ UNCHANGED <<mounted, message, rendered, needsRender, effectQueued, data,
                   reason, fetchCount, forced, backVars, envVars>>

\* fetch rejects: the request never got an answer.
FetchReject(why) ==
    /\ pc = "fetch"
    /\ pc' = "catch"
    /\ reason' = why
    /\ UNCHANGED <<mounted, message, rendered, needsRender, effectQueued,
                   response, data, fetchCount, forced, backVars, envVars>>

\* fetch rejects: the browser does not let the page read the response.
FetchBlocked(r) ==
    /\ pc = "fetch"
    /\ ~corsAllows(FetchRequest, r)
    /\ pc' = "catch"
    /\ reason' = BlockedByCors
    /\ UNCHANGED <<mounted, message, rendered, needsRender, effectQueued,
                   response, data, fetchCount, forced, backVars, envVars>>

\* res.json() settles: resolved with the parsed body or rejected.
JsonSettle ==
    /\ pc = "json"
    /\ LET p == JsonParse(response.body)
       IN  IF p.ok
           THEN pc' = "then" /\ data' = p.value /\ reason' = reason
           ELSE pc' = "catch" /\ data' = data /\ reason' = "SyntaxError"
    /\ UNCHANGED <<mounted, message, rendered, needsRender, effectQueued,
                   response, fetchCount, forced, backVars, envVars>>

\* A then-callback that throws after setMessage: the catch runs as well.
ThenFallsThrough ==
    /\ pc = "then"
    /\ pc' = "catch"
    /\ reason' = "TypeError"
    /\ IF messageThrows(data)
       THEN UNCHANGED <<message, needsRender>>
       ELSE setMessage(thenValue(data))
    /\ UNCHANGED <<mounted, rendered, effectQueued, response, data,
                   fetchCount, forced, backVars, envVars>>

\* .then(data => setMessage(data.message))
Then ==
    /\ pc = "then"
    /\ IF messageThrows(data)
       THEN pc' = "catch" /\ reason' = "TypeError"
            /\ UNCHANGED <<message, needsRender>>
       ELSE pc' = "settled" /\ reason' = reason
            /\ setMessage(thenValue(data))
    /\ UNCHANGED <<mounted, rendered, effectQueued, response, data,
                   fetchCount, forced, backVars, envVars>>

\* .catch(() => setMessage("Error connecting to backend"))
Catch ==
    /\ pc = "catch"
    /\ pc' = "settled"
    /\ setMessage(catchValue(reason))
    /\ UNCHANGED <<mounted, rendered, effectQueued, response, data, reason,
                   fetchCount, forced, backVars, envVars>>

FetchResolveAny == \E r \in Responses : FetchResolve(r)
FetchRejectAny == \E why \in RejectCauses : FetchReject(why)
FetchBlockedAny == \E r \in Responses : FetchBlocked(r)

NextUI ==
    \/ Mount
    \/ RunEffect
    \/ Render
    \/ ForcedRender
    \/ FetchResolveAny
    \/ FetchRejectAny
    \/ FetchBlockedAny
    \/ JsonSettle
    \/ Then
    \/ Catch

SpecUI == Init /\ [][NextUI]_vars

(***************************************************************************)
(* Network actions                                                         *)
(***************************************************************************)
\* Some other process starts to listen on a free port.
Occupy(q) ==
    /\ ports[q] = "free"
    /\ ports' = [ports EXCEPT ![q] = "other"]
    /\ UNCHANGED <<backendSt, viteSt, vitePort, viteSkipped, lastReq,
                   backVars, uiVars, scriptVars>>

\* Another process stops listening.
Release(q) ==
    /\ ports[q] = "other"
    /\ ports' = [ports EXCEPT ![q] = "free"]
    /\ UNCHANGED <<backendSt, viteSt, vitePort, viteSkipped, lastReq,
                   backVars, uiVars, scriptVars>>

\* app.listen(PORT, ...): with the port in use the 'error' event is unhandled
\* and the process fails.
BackendListen ==
    /\ backendSt = "off"
    /\ IF ports[PORT] = "free"
       THEN backendSt' = "listening" /\ ports' = [ports EXCEPT ![PORT] = "backend"]
       ELSE backendSt' = "failed" /\ ports' = ports
    /\ UNCHANGED <<viteSt, vitePort, viteSkipped, lastReq, backVars, uiVars, scriptVars>>

\* The dev server starts: server.port 5001, no strictPort.
ViteListen ==
    /\ viteSt = "off"
    /\ \E q \in NetPorts : q >= viteConfigPort /\ ports[q] = "free"
    /\ LET q == firstFreeFrom(viteConfigPort)
       IN  /\ ports' = [ports EXCEPT ![q] = "vite"]
           /\ vitePort' = q
           /\ viteSkipped' = viteConfigPort .. (q - 1)
    /\ viteSt' = "listening"
    /\ UNCHANGED <<backendSt, lastReq, backVars, uiVars, scriptVars>>

\* A browser request to the dev server: proxied or served by the dev server.
DevServerRequest(path) ==
    /\ viteSt = "listening"
    /\ lastReq' = [via |-> "dev server", path |-> path,
                   dest |-> IF startsWith(path, proxyKey)
                            THEN proxyTargetPort ELSE vitePort]
    /\ UNCHANGED <<ports, backendSt, viteSt, vitePort, viteSkipped,
                   backVars, uiVars, scriptVars>>

\* The request of the component, made by the page the dev server served.
ComponentFetch ==
    /\ viteSt = "listening"
    /\ lastReq' = [via |-> "fetch", path |-> fetchPath, dest |-> fetchPort]
    /\ UNCHANGED <<ports, backendSt, viteSt, vitePort, viteSkipped,
                   backVars, uiVars, scriptVars>>

OccupyAny == \E q \in NetPorts : Occupy(q)
ReleaseAny == \E q \in NetPorts : Release(q)
DevServerRequestAny == \E path \in DevPaths : DevServerRequest(path)

NextNet ==
    \/ OccupyAny
    \/ ReleaseAny
    \/ BackendListen
    \/ ViteListen
    \/ DevServerRequestAny
    \/ ComponentFetch

SpecNet == Init /\ [][NextNet]_vars

(***************************************************************************)
(* dev-both.sh actions                                                     *)
(***************************************************************************)
\* Lines 20-21: cd "$PROJECT_ROOT/app" && npx tsx watch src/index.ts &
StartBackendJob(direct) ==
    /\ dpc = "start"
    /\ dpc' = "backendStarted"
    /\ jobs' = [jobs EXCEPT !["backend"] = newJob(direct)]
    /\ UNCHANGED <<exitCause, sigAt, backVars, uiVars, netVars, killVars>>

\* Lines 23-24: cd "$PROJECT_ROOT/ui" && npm run dev &
StartFrontendJob(direct) ==
    /\ dpc = "backendStarted"
    /\ dpc' = "bothStarted"
    /\ jobs' = [jobs EXCEPT !["frontend"] = newJob(direct)]
    /\ UNCHANGED <<exitCause, sigAt, backVars, uiVars, netVars, killVars>>

\* Line 27: trap "...; kill $BACKEND_PID $FRONTEND_PID 2>/dev/null; exit" INT TERM,
\* and the script goes on to wait (line 30).
InstallTrap ==
    /\ dpc = "bothStarted"
    /\ dpc' = "waiting"
    /\ UNCHANGED <<jobs, exitCause, sigAt, backVars, uiVars, netVars, killVars>>

\* A server ends on its own; a wrapper ends with its child.
ServerExits(n) ==
    /\ jobs[n].server = "alive"
    /\ jobs' = [jobs EXCEPT ![n].server = "dead", ![n].wrapper = "dead"]
    /\ UNCHANGED <<dpc, exitCause, sigAt, backVars, uiVars, netVars, killVars>>

\* Line 30: wait returns when both jobs have ended; the script ends.
WaitReturns ==
    /\ dpc = "waiting"
    /\ \A n \in JobNames : jobs[n].wrapper = "dead"
    /\ dpc' = "exited"
    /\ exitCause' = "wait"
    /\ UNCHANGED <<jobs, sigAt, backVars, uiVars, netVars, killVars>>

\* What a signal sent to the process group does to a job before the script
\* reacts: TERM ends its processes; INT is ignored by background jobs of a
\* non-interactive shell unless the server installs its own handler, so each
\* server either ends or goes on.
afterGroupSignal(sig, j, ends) ==
    IF j.server # "alive" THEN j
    ELSE IF sig = "TERM" \/ ends
    THEN [j EXCEPT !.wrapper = "dead", !.server = "dead"]
    ELSE j

\* INT or TERM reaches the script.  With the trap installed the trap runs
\* (kill, exit); without it the signal's default action ends the script.
Signal(sig, scope, ends) ==
    /\ dpc # "exited"
    /\ LET hit == IF scope = "group"
                  THEN [n \in JobNames |-> afterGroupSignal(sig, jobs[n], ends[n])]
                  ELSE jobs
       IN  jobs' = IF trapInstalled
                   THEN [n \in JobNames |-> killJob(hit[n])]
                   ELSE hit
    /\ exitCause' = IF trapInstalled THEN "trap" ELSE "signal"
    /\ sigAt' = [at |-> dpc, sig |-> sig, scope |-> scope]
    /\ dpc' = "exited"
    /\ UNCHANGED <<backVars, uiVars, netVars, killVars>>

StartBackendJobAny == \E direct \in BOOLEAN : StartBackendJob(direct)
StartFrontendJobAny == \E direct \in BOOLEAN : StartFrontendJob(direct)
ServerExitsAny == \E n \in JobNames : ServerExits(n)
SignalAny ==
    \E sig \in Signals, scope \in Scopes, ends \in [JobNames -> BOOLEAN] :
        Signal(sig, scope, ends)

NextDev ==
    \/ StartBackendJobAny
    \/ StartFrontendJobAny
    \/ InstallTrap
    \/ ServerExitsAny
    \/ WaitReturns
    \/ SignalAny

SpecDev == Init /\ [][NextDev]_vars

(***************************************************************************)
(* kill-ports.sh actions                                                   *)
(***************************************************************************)
\* Before the script is run, a process starts or stops listening on a port.
SetListener(q, owner) ==
    /\ kpc = 0
    /\ listeners[q] # owner
    /\ listeners' = [listeners EXCEPT ![q] = owner]
    /\ UNCHANGED <<kpc, krun, found, out, backVars, uiVars, netVars, devVars>>

\* The script is started (line 6), by an ordinary user or by root, on a
\* machine with or without fuser.
RunKillPorts(run) ==
    /\ kpc = 0
    /\ kpc' = 1
    /\ krun' = run
    /\ UNCHANGED <<listeners, found, out, backVars, uiVars, netVars, devVars>>

\* Lines 9-15 (port 5000) and 18-24 (port 5001): fuser, then the message.
CheckPort ==
    /\ kpc \in 1..Len(KillPorts)
    /\ LET q == KillPorts[kpc]
       IN  /\ found' = [found EXCEPT ![q] = listeners[q]]
           /\ out' = [out EXCEPT ![q] = messageFor(fuserStatus(krun, listeners[q]))]
           /\ listeners' = [listeners EXCEPT ![q] = afterFuser(krun, listeners[q])]
    /\ kpc' = kpc + 1
    /\ UNCHANGED <<krun, backVars, uiVars, netVars, devVars>>

SetListenerAny == \E q \in KillPortSet, owner \in Owners : SetListener(q, owner)
RunKillPortsAny == \E run \in [installed : BOOLEAN, root : BOOLEAN] : RunKillPorts(run)

\* After the last port line 27 prints "Done! Ports 5000 and 5001 are now free."
killPortsDone == kpc = Len(KillPorts) + 1

NextKill ==
    \/ SetListenerAny
    \/ RunKillPortsAny
    \/ CheckPort

SpecKill == Init /\ [][NextKill]_vars

(***************************************************************************)
(* Properties of the backend (checked under Spec)                          *)
(***************************************************************************)
Done(c) == conns[c].st = "done"
WelcomeBody == "{\"message\":\"Hello from the Express Backend!\"}"

\* The request is a GET for exactly /api/welcome.
isWelcomeRequest(req) == req.method = "GET" /\ req.path = WelcomePath

\* The path is /api/welcome up to letter case and one trailing slash.
isWelcomePath(path) == LowerAll(path.segs) = <<"api", "welcome">>

isWelcomeResponse(res) ==
    /\ res.statusCode = 200
    /\ res.body = WelcomeBody
    /\ JsonParse(res.body) = [ok |-> TRUE, value |-> Obj(Str(WelcomeMessage))]

C8_OtherPathsNotFound ==
    \A c \in ConnIds :
        Done(c) /\ conns[c].req.path # WelcomePath =>
            /\ conns[c].res.statusCode = 404
            /\ conns[c].res.body # WelcomeBody

\* C8 as amended: a request to a path that is not /api/welcome up to letter
\* case and one trailing slash is never answered with status 200 or the
\* welcome body: an OPTIONS request is answered 204 by cors(), a request
\* with a malformed JSON body 400 by express.json(), every other one 404;
\* and a GET to a path that differs from /api/welcome only in letter case
\* or a trailing slash is answered like /api/welcome itself.
C8_OnlyWelcomeRoute ==
    \A c \in ConnIds :
        Done(c) =>
            IF isWelcomePath(conns[c].req.path)
            THEN LET exact == soloResponse([conns[c].req EXCEPT !.path = WelcomePath])
                 IN  /\ conns[c].res.statusCode = exact.statusCode
                     /\ conns[c].res.statusCode # 404 => conns[c].res = exact
            ELSE /\ conns[c].res.body # WelcomeBody
                 /\ conns[c].res.statusCode =
                        IF conns[c].req.method = "OPTIONS" THEN 204
                        ELSE IF conns[c].req.body = "json_bad" THEN 400
                        ELSE 404

C8_Witness ==
    /\ \E c \in ConnIds :
        /\ Done(c)
        /\ conns[c].req.path.text = "/api/other"
        /\ conns[c].req.method = "GET"
        /\ conns[c].res.statusCode = 404
    /\ \E c \in ConnIds :
        /\ Done(c)
        /\ conns[c].req.path.text = "/API/Welcome/"
        /\ conns[c].req.method = "GET"
        /\ conns[c].res.body = WelcomeBody

\* C9: every response, whatever the request's Origin header, carries
\* Access-Control-Allow-Origin "*", which allows that origin, and the same
\* request sent with any other Origin gets the same response.
C9_AnyOriginAllowed ==
    \A c \in ConnIds :
        /\ conns[c].st \in {"reading", "done"} => conns[c].res.allowOrigin = "*"
        /\ Done(c) =>
            \A o \in Origins :
                conns[c].res = soloResponse([conns[c].req EXCEPT !.origin = o])

C9_Witness ==
    \E c, d \in ConnIds :
        /\ Done(c) /\ Done(d)
        /\ conns[c].req.origin = "https://other.example"
        /\ conns[d].req.origin = "http://localhost:5001"
        /\ conns[c].req.method = "GET" /\ conns[d].req.method = "OPTIONS"
        /\ conns[c].res.allowOrigin = "*" /\ conns[d].res.allowOrigin = "*"

C10_StatelessInv ==
    /\ \A c \in ConnIds : Done(c) => conns[c].res = soloResponse(conns[c].req)
    /\ \A c, d \in ConnIds :
        Done(c) /\ Done(d) /\ conns[c].req = conns[d].req => conns[c].res = conns[d].res

C10_StatelessStep ==
    /\ app' = app
    /\ \A c, d \in ConnIds : c # d /\ conns'[c] # conns[c] => conns'[d] = conns[d]

\* C10: the backend keeps no state between requests.  In every state each
\* finished response is the one its request gets when it is the only request
\* ever made, and equal requests have equal responses; every step leaves the
\* middleware stack and every other connection as they were.
C10_Stateless == []C10_StatelessInv /\ [][C10_StatelessStep]_vars

C10_Witness ==
    \E c, d \in ConnIds :
        /\ c # d
        /\ conns[c].st = "reading"
        /\ Done(d) /\ isWelcomeRequest(conns[d].req)
        /\ conns[d].req.body = "json_ok"
        /\ isWelcomeResponse(conns[d].res)

(***************************************************************************)
(* Properties of the component (checked under SpecUI)                      *)
(***************************************************************************)
Settled == pc = "settled"
Parsed == JsonParse(response.body)

\* fetch resolved and the body parsed to an object whose message is a string.
ParsedStringMessage ==
    /\ response # NoResponse
    /\ Parsed.ok
    /\ Parsed.value.t = "object"
    /\ Parsed.value.message.t = "string"

\* C2: when the request resolves with a body that parses to {"message": X}
\* for a string X, the displayed state becomes exactly X (from "Loading...",
\* which it holds until the chain settles), and X is the text rendered.
C2_SuccessShowsMessage ==
    ParsedStringMessage =>
        /\ ~Settled => message = Str(Loading)
        /\ Settled =>
            /\ message = Parsed.value.message
            /\ ~needsRender => rendered = Parsed.value.message.s

C2_Witness ==
    /\ Settled
    /\ response.body = "{\"message\":\"X\"}"
    /\ message = Str("X")
    /\ rendered = "X"

\* C3: when the fetch promise rejects, for any cause, the displayed state
\* becomes exactly "Error connecting to backend".
C3_RejectShowsError ==
    Settled /\ reason \in RejectCauses \cup {BlockedByCors} =>
        /\ message = Str(ErrorText)
        /\ ~needsRender => rendered = ErrorText

C3_Witness ==
    /\ Settled
    /\ reason = "backend unreachable"
    /\ response = NoResponse
    /\ rendered = ErrorText

\* Response bodies that are not JSON texts.
NotJsonBodies == {"Cannot GET /api/welcome", ""}

\* C4: when the fetch resolves with a body that is not JSON, the displayed
\* state becomes "Error connecting to backend", and nothing of the response
\* is ever displayed.
C4_UnparsableShowsError ==
    response # NoResponse /\ response.body \in NotJsonBodies =>
        /\ message \in {Str(Loading), Str(ErrorText)}
        /\ rendered \in {Loading, ErrorText}
        /\ Settled => message = Str(ErrorText)

C4_Witness ==
    /\ Settled
    /\ response.status = 404
    /\ response.body = "Cannot GET /api/welcome"
    /\ reason = "SyntaxError"
    /\ rendered = ErrorText

\* C5: from mount on, the displayed state is "Loading..." in every state in
\* which the request has not settled; nothing but the settling of the
\* request changes it.
C5_LoadingUntilSettled ==
    mounted /\ ~Settled =>
        /\ message = Str(Loading)
        /\ rendered = Loading

C5_Witness ==
    /\ mounted
    /\ pc = "fetch"
    /\ forced >= 2
    /\ rendered = Loading

C6_Step ==
    /\ mounted /\ message' # message =>
            message = Str(Loading) /\ ~Settled /\ pc' = "settled"
    /\ Settled => pc' = "settled"
    /\ mounted /\ rendered' # rendered => rendered = Loading

\* C6: the displayed state changes at most once, from "Loading..." and at
\* the moment the chain settles; a settled chain stays settled, so neither
\* outcome is ever replaced.
C6_OneTransition == [][C6_Step]_vars

C6_Witness ==
    /\ Settled
    /\ message = Str(WelcomeMessage)
    /\ rendered = WelcomeMessage
    /\ forced >= 1

\* C7: a component instance calls fetch exactly once: in the effect of the
\* mount, never on a re-render and never after a failure.
C7_OneRequest ==
    /\ fetchCount <= 1
    /\ mounted /\ ~effectQueued => fetchCount = 1
    /\ ~mounted => fetchCount = 0

C7_Witness ==
    /\ Settled
    /\ message = Str(ErrorText)
    /\ rendered = ErrorText
    /\ forced >= 2
    /\ fetchCount = 1

\* Response bodies that are JSON texts.
JsonBodies == BodyTexts \ NotJsonBodies

\* C11 as stated: whenever the body parses as JSON, the display becomes the
\* value of its message field, and the chain is never rejected.
C11_ParsedShowsField ==
    Settled /\ response # NoResponse /\ response.body \in JsonBodies =>
        /\ message = Parsed.value.message
        /\ reason = ""

\* C11 as amended: when the body parses to a JSON value other than null, the
\* state becomes data.message whatever it is (a string, a number, null, an
\* object, or undefined when the field is absent) and the chain is never
\* rejected because of it; strings and numbers are the rendered text, every
\* other value renders no text.  When the body parses to null, reading
\* data.message throws and the display becomes the error string.
C11_FieldUnvalidated ==
    Settled /\ response # NoResponse /\ response.body \in JsonBodies =>
        IF response.body = "null"
        THEN message = Str(ErrorText) /\ reason = "TypeError"
        ELSE /\ message = Parsed.value.message
             /\ reason = ""
             /\ ~needsRender =>
                    rendered = IF message.t \in {"string", "number"}
                               THEN message.s ELSE ""

C11_Witness ==
    /\ Settled
    /\ response.body = "{\"message\":42}"
    /\ message = Num("42")
    /\ rendered = "42"

ApiPrefix == <<"/", "a", "p", "i">>

RoutingAsClaimed ==
    /\ backendSt = "listening" =>
            \A q \in NetPorts : ports[q] = "backend" <=> q = 5000
    /\ lastReq.via = "dev server" =>
            (lastReq.dest = 5000 <=> startsWith(lastReq.path, ApiPrefix))
    /\ lastReq.via = "dev server" /\ ~startsWith(lastReq.path, ApiPrefix) =>
            lastReq.dest = vitePort
    /\ lastReq.via = "fetch" =>
            lastReq.dest = 5000 /\ lastReq.dest = proxyTargetPort

\* C12 as stated: the backend listens on port 5000 and the dev server on
\* the fixed port 5001; the dev server forwards exactly the paths that start
\* with /api to port 5000, and the component's request goes to port 5000,
\* the proxy's target.
C12_FixedPorts ==
    /\ viteSt = "listening" => vitePort = 5001
    /\ RoutingAsClaimed

\* C12 as amended: the backend listens on port 5000 or not at all; the dev
\* server listens on 5001 when that port is free as it starts and otherwise
\* on the next free port above it, never on 5000; the dev server forwards
\* exactly the paths that start with /api to port 5000, and the component's
\* request goes to port 5000, the proxy's target.
C12_PortsAndProxy ==
    /\ viteSt = "listening" =>
            /\ vitePort >= 5001
            /\ ports[vitePort] = "vite"
            /\ viteSkipped = 5001 .. (vitePort - 1)
            /\ \A q \in NetPorts : ports[q] = "vite" <=> q = vitePort
    /\ RoutingAsClaimed

C12_Witness ==
    /\ backendSt = "listening"
    /\ viteSt = "listening" /\ vitePort = 5001
    /\ lastReq.via = "dev server"
    /\ lastReq.path = <<"/", "a", "p", "i", "s">>
    /\ lastReq.dest = 5000

(***************************************************************************)
(* Properties of dev-both.sh (checked under SpecDev)                       *)
(***************************************************************************)
\* C13: once both servers have been started, an INT or TERM signal to the
\* script leads to both servers being stopped and the script exiting:
\* whenever the script is gone because of a signal that reached it after
\* both jobs were started, neither server is running.
C13_SignalStopsBoth ==
    /\ dpc = "exited"
    /\ exitCause \in {"trap", "signal"}
    /\ sigAt.at \in {"bothStarted", "waiting"}
    => \A n \in JobNames : jobs[n].server # "alive"

(***************************************************************************)
(* Properties of kill-ports.sh (checked under SpecKill)                    *)
(***************************************************************************)
\* C14: when the script has finished no process listens on port 5000 or
\* 5001, and for each port it printed "Killed process" exactly when a
\* process was listening there and was killed, and "No process found"
\* exactly when none was listening.
C14_PortsFree ==
    killPortsDone =>
        \A q \in {5000, 5001} :
            /\ listeners[q] = "none"
            /\ out[q] = "Killed process" <=> found[q] # "none"
            /\ out[q] = "No process found" <=> found[q] = "none"

TypeOK ==
    /\ app = appStack
    /\ \A c \in ConnIds : conns[c].st \in {"idle", "reading", "done"}
    /\ pc \in {"none", "fetch", "json", "then", "catch", "settled"}

====
